---- MODULE Spec2Model ----
(***************************************************************************)
(* Model of the local trust & resilience layer of the chat client:         *)
(*   - the credential vault and its login flow      (src/src/ui/auth.py)   *)
(*   - the API gateway client                 (src/src/api/openrouter.py)  *)
(* The persistent store (utils/cache.py, ChatCache) is not part of the     *)
(* sources; its credential table is modelled from the specification        *)
(* (sections 3, 4.1, 4.2).                                                 *)
(*                                                                         *)
(* Strings whose content is computed or parsed by the program (the PIN,    *)
(* the balance string) are sequences of one-character strings.             *)
(***************************************************************************)
EXTENDS Integers, Sequences, FiniteSets, TLC

(***************************************************************************)
(* Bounds of the model and program constants.                              *)
(***************************************************************************)
\* digits of a generated PIN are drawn from 0..MaxDigit (the program: 0..9)
MaxDigit == 1
\* a remote model list carries at most MaxModels entries
MaxModels == 2
\* range(4) in generate_pin
PinLen == 4

\* chat turns started in all (as many can be in flight at once)
MaxTurns == 2

(***************************************************************************)
(* Values.                                                                 *)
(***************************************************************************)
\* Python None / a missing attribute
None == "None"
\* no credential record in the store (get_auth_data() returns None)
NoCred == [none |-> TRUE]

\* API keys a user can type or the environment can hold; "" is the empty field
Keys == {"k1", "k2"}
\* the keys the remote API knows (an account with that key exists)
ValidKeys == {"k1"}
\* Telegram chat ids a user can type
TelegramIds == {"t1"}

DigitChar == [d \in 0..9 |-> CASE d = 0 -> "0" [] d = 1 -> "1" [] d = 2 -> "2"
                               [] d = 3 -> "3" [] d = 4 -> "4" [] d = 5 -> "5"
                               [] d = 6 -> "6" [] d = 7 -> "7" [] d = 8 -> "8"
                               [] OTHER -> "9"]

\* str(d) for a digit
Str(d) == DigitChar[d]

\* every string generate_pin can return, within the digit bound
Pins == [1..PinLen -> {Str(d) : d \in 0..MaxDigit}]

\* what a user can type into the PIN field: any 4-digit string, nothing, or
\* a string of another length
PinInputs == Pins \cup {<<>>, <<"0">>, <<"0", "0", "0", "0", "0">>}

(***************************************************************************)
(* Text helpers: the balance string is built and parsed character by       *)
(* character, as the f-string and float() do.                              *)
(***************************************************************************)
CharDigit(c) == CHOOSE d \in 0..9 : DigitChar[d] = c

IsDigitChar(c) == \E d \in 0..9 : DigitChar[d] = c

RECURSIVE NatStr(_)
\* str(n) for a natural number
NatStr(n) == IF n < 10 THEN <<Str(n)>> ELSE NatStr(n \div 10) \o <<Str(n % 10)>>

RECURSIVE DigitsVal(_)
\* the number a non-empty digit string denotes
DigitsVal(s) == IF Len(s) = 0 THEN 0
                ELSE 10 * DigitsVal(SubSeq(s, 1, Len(s) - 1)) + CharDigit(s[Len(s)])

RECURSIVE LStrip(_, _)
\* s.lstrip(ch): every leading ch removed
LStrip(s, ch) == IF Len(s) > 0 /\ s[1] = ch THEN LStrip(Tail(s), ch) ELSE s

\* "Ошибка", the error sentinel of get_balance (transliterated)
ERROR_SENTINEL == <<"O", "s", "h", "i", "b", "k", "a">>

\* f"${x:.2f}" for an amount x given in cents
FormatBalance(cents) ==
    LET a == IF cents < 0 THEN 0 - cents ELSE cents
        sign == IF cents < 0 THEN <<"-">> ELSE <<>>
    IN  <<"$">> \o sign \o NatStr(a \div 100) \o <<".">>
            \o <<Str((a % 100) \div 10), Str(a % 10)>>

\* float(s) for the decimal strings the program meets: [ok, cents], with ok
\* FALSE (float raises ValueError) when s is not [-]digits.dd
ParseFloat(s) ==
    LET neg == Len(s) > 0 /\ s[1] = "-"
        t == IF neg THEN Tail(s) ELSE s
        n == Len(t)
        wellFormed == /\ n >= 4
                      /\ t[n - 2] = "."
                      /\ \A i \in (1..n) \ {n - 2} : IsDigitChar(t[i])
        v == 100 * DigitsVal(SubSeq(t, 1, n - 3)) + DigitsVal(SubSeq(t, n - 1, n))
    IN  IF ~wellFormed THEN [ok |-> FALSE, cents |-> 0]
        ELSE [ok |-> TRUE, cents |-> IF neg THEN 0 - v ELSE v]

(***************************************************************************)
(* OpenRouterClient: the pure parts.                                       *)
(***************************************************************************)
\* Python truthiness of an api key: None and "" are falsy
Truthy(key) == key # None /\ key # ""

\* api_key or os.getenv("OPENROUTER_API_KEY")
InitApiKey(param, env) == IF Truthy(param) THEN param ELSE env

\* update_headers: the Authorization header for the current key
AuthHeader(api_key) ==
    IF Truthy(api_key) THEN [scheme |-> "Bearer", key |-> api_key]
    ELSE [scheme |-> "", key |-> ""]

\* validate_api_key: TRUE when it returns, FALSE when it raises ValueError
ValidateApiKey(api_key) == Truthy(api_key)

\* the exception validate_api_key raises
MissingKeyError == "OpenRouter API key not provided"

(***************************************************************************)
(* The remote API, seen from the client.  A response is                    *)
(*   [kind |-> "transport_error"]   requests raised                        *)
(*   [kind |-> "not_json"]          response.json() raised                 *)
(*   [kind |-> "json", ...]         a JSON body                            *)
(* GET /credits answers with the account of the key in the Authorization   *)
(* header; a request without a known key gets an error body.               *)
(***************************************************************************)
\* amounts the remote account can report, in cents
Credits == {0, 1000}
Usages == {0, 750, 1000}

TransportError == [kind |-> "transport_error"]
NotJson == [kind |-> "not_json"]

\* JSON bodies of GET /credits: a falsy body (null, {}), an error body
\* without "data", and {"data": {...}} with or without its two fields
CreditsBodies(header) ==
    IF header.key \in ValidKeys
    THEN {[kind |-> "json", falsy |-> TRUE, data |-> None, fields |-> <<>>]}
         \cup {[kind |-> "json", falsy |-> FALSE, data |-> "object",
                fields |-> [total_credits |-> c, total_usage |-> u]] :
                 c \in Credits, u \in Usages}
         \cup {[kind |-> "json", falsy |-> FALSE, data |-> "object",
                fields |-> [total_credits |-> c]] : c \in Credits}
    ELSE {[kind |-> "json", falsy |-> FALSE, data |-> None, fields |-> <<>>]}

CreditsResponses(header) == {TransportError, NotJson} \cup CreditsBodies(header)

\* dict.get(key, default)
Get(fields, key, default) == IF key \in DOMAIN fields THEN fields[key] ELSE default

\* the class of an answer of GET /credits
CreditsAnswer(resp) ==
    IF resp.kind # "json" THEN resp.kind
    ELSE IF resp.falsy THEN "empty"
    ELSE IF resp.data = None THEN "no_data"
    ELSE "ok"

\* the balance, in cents, an answer of class "ok" reports
RemoteBalance(resp) ==
    IF CreditsAnswer(resp) = "ok"
    THEN Get(resp.fields, "total_credits", 0) - Get(resp.fields, "total_usage", 0)
    ELSE 0

\* variant: an empty body is read as a balance of zero
GetBalance_EmptyAsZero(api_key, headers, validate, resp) ==
    LET req == [endpoint |-> "credits", auth |-> headers, model |-> ""]
    IN  IF validate /\ ~ValidateApiKey(api_key)
        THEN [result |-> ERROR_SENTINEL, requests |-> <<>>]
        ELSE IF resp.kind # "json"
        THEN [result |-> ERROR_SENTINEL, requests |-> <<req>>]
        ELSE IF resp.falsy
        THEN [result |-> FormatBalance(0), requests |-> <<req>>]
        ELSE IF resp.data = None
        THEN [result |-> ERROR_SENTINEL, requests |-> <<req>>]
        ELSE [result |-> FormatBalance(Get(resp.fields, "total_credits", 0)
                                         - Get(resp.fields, "total_usage", 0)),
              requests |-> <<req>>]

\* variant: a request that got no answer is issued a second time
GetBalance_Retry(api_key, headers, validate, resp) ==
    LET req == [endpoint |-> "credits", auth |-> headers, model |-> ""]
    IN  IF validate /\ ~ValidateApiKey(api_key)
        THEN [result |-> ERROR_SENTINEL, requests |-> <<>>]
        ELSE IF resp.kind = "transport_error"
        THEN [result |-> ERROR_SENTINEL, requests |-> <<req, req>>]
        ELSE IF resp.kind # "json"
        THEN [result |-> ERROR_SENTINEL, requests |-> <<req>>]
        ELSE IF resp.falsy
        THEN [result |-> ERROR_SENTINEL, requests |-> <<req>>]
        ELSE IF resp.data = None
        THEN [result |-> ERROR_SENTINEL, requests |-> <<req>>]
        ELSE [result |-> FormatBalance(Get(resp.fields, "total_credits", 0)
                                         - Get(resp.fields, "total_usage", 0)),
              requests |-> <<req>>]

\* variant: get_balance that never calls validate_api_key
GetBalance_NoValidate(api_key, headers, validate, resp) ==
    LET req == [endpoint |-> "credits", auth |-> headers, model |-> ""]
    IN  IF resp.kind # "json" THEN [result |-> ERROR_SENTINEL, requests |-> <<req>>]
        ELSE IF resp.falsy THEN [result |-> ERROR_SENTINEL, requests |-> <<req>>]
        ELSE IF resp.data = None THEN [result |-> ERROR_SENTINEL, requests |-> <<req>>]
        ELSE [result |-> FormatBalance(Get(resp.fields, "total_credits", 0)
                                         - Get(resp.fields, "total_usage", 0)),
              requests |-> <<req>>]

\* get_balance(validate), given the response the remote would give:
\* [result |-> the returned string, requests |-> the requests issued]
GetBalance(api_key, headers, validate, resp) ==
    LET req == [endpoint |-> "credits", auth |-> headers, model |-> ""]
    IN  IF validate /\ ~ValidateApiKey(api_key)
        THEN \* ValueError caught by the except clause
             [result |-> ERROR_SENTINEL, requests |-> <<>>]
        ELSE IF resp.kind # "json"
        THEN [result |-> ERROR_SENTINEL, requests |-> <<req>>]
        ELSE IF resp.falsy
        THEN \* "if data:" fails
             [result |-> ERROR_SENTINEL, requests |-> <<req>>]
        ELSE IF resp.data = None
        THEN \* data.get('data') is None: AttributeError, caught
             [result |-> ERROR_SENTINEL, requests |-> <<req>>]
        ELSE [result |-> FormatBalance(Get(resp.fields, "total_credits", 0)
                                         - Get(resp.fields, "total_usage", 0)),
              requests |-> <<req>>]

(***************************************************************************)
(* Credential vault and login flow (AuthUI over ChatCache).                *)
(***************************************************************************)
VARIABLES
    cred,            \* the stored CredentialRecord, or NoCred (persistent)
    envKey,          \* OPENROUTER_API_KEY of the environment, or None
    screen,          \* the form on the page: "none" before show_auth,
                     \* "first_login", "pin_login", "main", "blank"
    dialogPin,       \* the PIN in the open "Ваш PIN-код" dialog, <<>> if closed
    authError,       \* the last message passed to show_error, "" if none
    unlocked,        \* on_auth_success was invoked in this run
    pinVerified,     \* verify_pin returned True in this run
    firstLoginDone,  \* first login saved a credential in this run
    shownPin,        \* history: the PIN displayed by the latest first login
    savedSinceReset, \* history: a save succeeded and no reset happened since
    validatedAuth,   \* history: the Authorization header of the request whose
                     \* answer made the latest first login accept the key
    startedWithCredential \* history: show_auth of this run found a stored
                     \* credential record

vaultVars == <<cred, envKey, screen, dialogPin, authError, unlocked, pinVerified,
               firstLoginDone, shownPin, savedSinceReset, validatedAuth,
               startedWithCredential>>

\* the client instance (OpenRouterClient)
VARIABLES
    self_api_key,     \* self.api_key
    self_headers,     \* self.headers["Authorization"]
    has_models,       \* hasattr(self, 'available_models')
    available_models, \* self.available_models (<<>> while the attribute is missing)
    last,             \* the latest operation: arguments, requests issued, outcome
    prevList          \* history: the get_models call just before the latest
                      \* operation, if that is what preceded it

clientVars == <<self_api_key, self_headers, has_models, available_models, last,
                prevList>>

\* the application (ChatApp): message history, main window, chat turns
VARIABLES
    history,      \* the rows of the message table, oldest first (persistent)
    clock,        \* rows written so far: the next row's id and timestamp
    exported,     \* the objects of the latest export file, <<>> if none
    app_ready,    \* show_main_ui built the main window in this run
    login,        \* initialize_api_client of this run: balance read, notification
    options,      \* ids offered by model_dropdown, in order
    dropdown,     \* model_dropdown.value
    turns,        \* the send_message_click coroutines in flight, by slot
    started,      \* chat turns started so far
    clearDialog   \* the "Подтверждение удаления" dialog: "none" before it was
                  \* opened, "open", then "cancelled" or "confirmed"

appVars == <<history, clock, exported, app_ready, login, options, dropdown, turns,
             started, clearDialog>>

vars == <<vaultVars, clientVars, appVars>>

Slots == 1..MaxTurns

\* login: no initialize_api_client has run
NoLogin ==
    [done |-> FALSE, credits |-> "none", credit_cents |-> 0, balance |-> <<>>,
     dispatches |-> <<>>, deliveries |-> <<>>, raised |-> ""]

\* a slot without a coroutine (cleared is history: a confirmed clear ran
\* while the turn of this slot was in flight, and the clear dialog has not
\* been opened since)
IdleTurn ==
    [phase |-> "idle", user_message |-> "", model |-> "", fetched |-> FALSE,
     fetched_models |-> <<>>, response |-> [has_error |-> FALSE, error |-> <<>>,
     has_choices |-> FALSE, content |-> <<>>, has_usage |-> FALSE,
     total_tokens |-> 0], raised |-> "", cleared |-> FALSE]

\* a fresh installation: no message, no export, no main window
AppFresh ==
    /\ history = <<>>
    /\ clock = 0
    /\ exported = <<>>
    /\ app_ready = FALSE
    /\ login = NoLogin
    /\ options = <<>>
    /\ dropdown = None
    /\ turns = [t \in Slots |-> IdleTurn]
    /\ started = 0
    /\ clearDialog = "none"

\* the main window of a process that has not shown it
NoSession ==
    /\ app_ready' = FALSE
    /\ login' = NoLogin
    /\ options' = <<>>
    /\ dropdown' = None
    /\ turns' = [t \in Slots |-> IdleTurn]
    /\ clearDialog' = "none"

NoPin == <<>>
NoAuth == [scheme |-> "none", key |-> ""]

\* messages of show_error
MsgFillAll == "Zapolnite vse polya"
MsgBadKey == "Nevernyi API klyuch"
MsgNoFunds == "Nedostatochno sredstv na balanse"
MsgEnterPin == "Vvedite PIN"
MsgBadPin == "Nevernyi PIN"

\* ---- ChatCache, credential table (from the specification) ----
\* getCredential() / get_auth_data()
GetAuthData(c) == c

\* hasCredential()
HasCredential(c) == c # NoCred

\* upsertCredential / save_auth_data: atomic replace-or-insert
SaveAuthData(api_key, pin, telegram_id) ==
    [api_key |-> api_key, pin |-> pin, telegram_id |-> telegram_id]

\* verifyPin(candidate): a credential exists and candidate is its PIN exactly
VerifyPin(c, candidate) == c # NoCred /\ c.pin = candidate

\* deleteCredential / clear_auth_data: unconditional
ClearAuthData == NoCred

\* ---- AuthUI ----
\* check_api_key(api_key): OpenRouterClient() takes its key, and builds its
\* headers, from the environment; the entered key is then assigned to
\* client.api_key and the headers are left as built.
\* [ok, error, auth]: auth is the header the balance request carried
CheckApiKey(api_key, env, resp) ==
    LET headers == AuthHeader(InitApiKey(None, env))
        bal == GetBalance(api_key, headers, TRUE, resp)
        value == ParseFloat(LStrip(bal.result, "$"))
    IN  IF bal.result = ERROR_SENTINEL
        THEN [ok |-> FALSE, error |-> MsgBadKey, auth |-> headers]
        ELSE IF ~value.ok
        THEN \* float() raised: except Exception
             [ok |-> FALSE, error |-> "ValueError", auth |-> headers]
        ELSE IF value.cents <= 0
        THEN [ok |-> FALSE, error |-> MsgNoFunds, auth |-> headers]
        ELSE [ok |-> TRUE, error |-> "", auth |-> headers]

\* the header check_api_key's request carries for this environment
CheckApiKeyAuth(env) == AuthHeader(InitApiKey(None, env))

\* show_auth: the form is chosen by the presence of a credential record
ShowAuth ==
    /\ UNCHANGED <<clientVars, appVars>>
    /\ screen = "none"
    /\ screen' = IF GetAuthData(cred) = NoCred THEN "first_login" ELSE "pin_login"
    /\ startedWithCredential' = (GetAuthData(cred) # NoCred)
    /\ UNCHANGED <<cred, envKey, dialogPin, authError, unlocked, pinVerified,
                   firstLoginDone, shownPin, savedSinceReset, validatedAuth>>

\* on_auth_success(): the callback that opens the main UI.  It is a
\* coroutine function that AuthUI calls without awaiting, and show_main_ui
\* raises when the client cannot be initialised: the page keeps the form
\* it shows, or shows the main UI, or is left cleaned.
AuthOutcomes == {"kept", "main", "blank"}

OnAuthSuccess(outcome) ==
    /\ unlocked' = TRUE
    /\ screen' = IF outcome = "kept" THEN screen ELSE outcome

\* variant: a first login that displays a PIN generated apart from the
\* one it saves
HandleFirstLogin_ShowOtherPin(api_key, telegram_id) ==
    /\ UNCHANGED <<clientVars, appVars>>
    /\ screen = "first_login"
    /\ dialogPin = NoPin
    /\ api_key # "" /\ telegram_id # ""
    /\ \E resp \in CreditsResponses(CheckApiKeyAuth(envKey)) :
        /\ CheckApiKey(api_key, envKey, resp).ok
        /\ \E pin \in Pins, other \in Pins :
            /\ cred' = SaveAuthData(api_key, pin, telegram_id)
            /\ dialogPin' = other
            /\ shownPin' = other
            /\ savedSinceReset' = TRUE
            /\ firstLoginDone' = TRUE
            /\ validatedAuth' = CheckApiKey(api_key, envKey, resp).auth
            /\ authError' = authError
    /\ UNCHANGED <<envKey, screen, unlocked, pinVerified, startedWithCredential>>

\* handle_first_login
HandleFirstLogin(api_key, telegram_id) ==
    /\ UNCHANGED <<clientVars, appVars>>
    /\ screen = "first_login"
    /\ dialogPin = NoPin
    /\ IF api_key = "" \/ telegram_id = ""
       THEN /\ authError' = MsgFillAll
            /\ UNCHANGED <<cred, dialogPin, shownPin, savedSinceReset,
                           firstLoginDone, validatedAuth>>
       ELSE \E resp \in CreditsResponses(CheckApiKeyAuth(envKey)) :
              LET chk == CheckApiKey(api_key, envKey, resp)
              IN  IF ~chk.ok
                  THEN /\ authError' = chk.error
                       /\ UNCHANGED <<cred, dialogPin, shownPin, savedSinceReset,
                                      firstLoginDone, validatedAuth>>
                  ELSE \E pin \in Pins :          \* generate_pin()
                         /\ cred' = SaveAuthData(api_key, pin, telegram_id)
                         /\ dialogPin' = pin
                         /\ shownPin' = pin
                         /\ savedSinceReset' = TRUE
                         /\ firstLoginDone' = TRUE
                         /\ validatedAuth' = chk.auth
                         /\ authError' = authError
    /\ UNCHANGED <<envKey, screen, unlocked, pinVerified, startedWithCredential>>

\* close_dialog_and_proceed: the OK button of the PIN dialog
CloseDialogAndProceed ==
    /\ UNCHANGED <<clientVars, appVars>>
    /\ dialogPin # NoPin
    /\ dialogPin' = NoPin
    /\ \E outcome \in AuthOutcomes : OnAuthSuccess(outcome)
    /\ UNCHANGED <<cred, envKey, authError, pinVerified, firstLoginDone, shownPin,
                   savedSinceReset, validatedAuth,
                   startedWithCredential>>

\* variant: a PIN login that proceeds whatever verify_pin returns
HandlePinLogin_AlwaysProceed(pin) ==
    /\ UNCHANGED <<clientVars, appVars>>
    /\ screen = "pin_login"
    /\ pin # <<>>
    /\ pinVerified' = (pinVerified \/ VerifyPin(cred, pin))
    /\ \E outcome \in AuthOutcomes : OnAuthSuccess(outcome)
    /\ UNCHANGED <<cred, envKey, dialogPin, authError, firstLoginDone, shownPin,
                   savedSinceReset, validatedAuth,
                   startedWithCredential>>

\* handle_pin_login
HandlePinLogin(pin) ==
    /\ UNCHANGED <<clientVars, appVars>>
    /\ screen = "pin_login"
    /\ IF pin = <<>>
       THEN /\ authError' = MsgEnterPin
            /\ UNCHANGED <<screen, unlocked, pinVerified>>
       ELSE IF VerifyPin(cred, pin)
       THEN /\ pinVerified' = TRUE
            /\ authError' = authError
            /\ \E outcome \in AuthOutcomes : OnAuthSuccess(outcome)
       ELSE /\ authError' = MsgBadPin
            /\ UNCHANGED <<screen, unlocked, pinVerified>>
    /\ UNCHANGED <<cred, envKey, dialogPin, firstLoginDone, shownPin,
                   savedSinceReset, validatedAuth,
                   startedWithCredential>>

\* variant: a reset that shows first login and leaves the record stored
HandleReset_KeepRecord ==
    /\ UNCHANGED <<clientVars, appVars>>
    /\ screen = "pin_login"
    /\ screen' = "first_login"
    /\ savedSinceReset' = FALSE
    /\ UNCHANGED <<cred, envKey, dialogPin, authError, unlocked, pinVerified,
                   firstLoginDone, shownPin, validatedAuth,
                   startedWithCredential>>

\* handle_reset: clear_auth_data(), then show_first_login()
HandleReset ==
    /\ UNCHANGED <<clientVars, appVars>>
    /\ screen = "pin_login"
    /\ cred' = ClearAuthData
    /\ screen' = "first_login"
    /\ savedSinceReset' = FALSE
    /\ UNCHANGED <<envKey, dialogPin, authError, unlocked, pinVerified,
                   firstLoginDone, shownPin, validatedAuth,
                   startedWithCredential>>

\* variant: a restart that keeps the unlocked flag of the run before
Restart_KeepsUnlocked ==
    /\ has_models' = FALSE
    /\ available_models' = <<>>
    /\ UNCHANGED <<self_api_key, self_headers, last, prevList>>
    /\ NoSession
    /\ UNCHANGED <<history, clock, exported, started>>
    /\ screen # "none"
    /\ screen' = "none"
    /\ dialogPin' = NoPin
    /\ authError' = ""
    /\ pinVerified' = FALSE
    /\ firstLoginDone' = FALSE
    /\ startedWithCredential' = FALSE
    /\ UNCHANGED <<cred, envKey, unlocked, shownPin, savedSinceReset, validatedAuth>>

\* the process ends and the application is started again: the store is
\* kept, everything the process held is gone
Restart ==
    /\ has_models' = FALSE
    /\ available_models' = <<>>
    /\ UNCHANGED <<self_api_key, self_headers, last, prevList>>
    /\ NoSession
    /\ UNCHANGED <<history, clock, exported, started>>
    /\ screen # "none"
    /\ screen' = "none"
    /\ dialogPin' = NoPin
    /\ authError' = ""
    /\ unlocked' = FALSE
    /\ pinVerified' = FALSE
    /\ firstLoginDone' = FALSE
    /\ startedWithCredential' = FALSE
    /\ UNCHANGED <<cred, envKey, shownPin, savedSinceReset, validatedAuth>>

VaultInit ==
    /\ cred = NoCred
    /\ envKey \in {None} \cup Keys
    /\ screen = "none"
    /\ dialogPin = NoPin
    /\ authError = ""
    /\ unlocked = FALSE
    /\ pinVerified = FALSE
    /\ firstLoginDone = FALSE
    /\ shownPin = NoPin
    /\ savedSinceReset = FALSE
    /\ validatedAuth = NoAuth
    /\ startedWithCredential = FALSE

VaultNext ==
    \/ ShowAuth
    \/ \E k \in Keys \cup {""}, t \in TelegramIds \cup {""} : HandleFirstLogin(k, t)
    \/ CloseDialogAndProceed
    \/ \E p \in PinInputs : HandlePinLogin(p)
    \/ HandleReset
    \/ Restart

(***************************************************************************)
(* OpenRouterClient: model list and chat completion.                       *)
(***************************************************************************)
\* entries of the remote catalogue, as GET /models lists them
RemoteModelEntries ==
    {[id |-> "m1", name |-> "Model One", context_length |-> 4096],
     [id |-> "m2", name |-> "Model Two", context_length |-> 8192]}

\* the "data" arrays GET /models can answer with
ModelPayloads == UNION {[1..n -> RemoteModelEntries] : n \in 0..MaxModels}

\* answers of GET /models: no answer, a body that is not JSON, JSON without
\* "data", a "data" array with an entry that lacks "name", a "data" array
ModelsResponses ==
    {TransportError, NotJson}
    \cup {[kind |-> "json", has_data |-> FALSE, complete |-> TRUE, data |-> <<>>]}
    \cup {[kind |-> "json", has_data |-> TRUE, complete |-> FALSE, data |-> d] :
            d \in ModelPayloads \ {<<>>}}
    \cup {[kind |-> "json", has_data |-> TRUE, complete |-> TRUE, data |-> d] :
            d \in ModelPayloads}

\* what kind of answer a GET /models answer is, and the length of its array
ListAnswer(resp) ==
    IF resp.kind # "json" THEN resp.kind
    ELSE IF ~resp.has_data THEN "no_data"
    ELSE IF ~resp.complete THEN "incomplete"
    ELSE "ok"

PayloadLen(resp) == IF resp.kind = "json" THEN Len(resp.data) ELSE 0

\* variant: the default list in another order
ModelsDefault_Reordered ==
    << [id |-> "gpt-3.5-turbo", name |-> "GPT-3.5 Turbo"],
       [id |-> "claude-3-sonnet", name |-> "Claude 3.5 Sonnet"],
       [id |-> "deepseek-coder", name |-> "DeepSeek"] >>

\* models_default
ModelsDefault ==
    << [id |-> "deepseek-coder", name |-> "DeepSeek"],
       [id |-> "claude-3-sonnet", name |-> "Claude 3.5 Sonnet"],
       [id |-> "gpt-3.5-turbo", name |-> "GPT-3.5 Turbo"] >>

\* the model send_message falls back to when the list is empty
DefaultModelId == "gpt-3.5-turbo"

\* [{"id": model["id"], "name": model["name"]} for model in data]
Project(data) == [i \in 1..Len(data) |-> [id |-> data[i].id, name |-> data[i].name]]

\* variant: a get_models that treats an empty cached list as no cache
GetModels_RefetchWhenEmpty(api_key, headers, has, avail, force, resp) ==
    LET req == [endpoint |-> "models", auth |-> headers, model |-> ""]
    IN  IF ~ValidateApiKey(api_key)
        THEN [result |-> ModelsDefault, requests |-> <<>>]
        ELSE IF has /\ avail # <<>> /\ ~force
        THEN [result |-> avail, requests |-> <<>>]
        ELSE IF resp.kind # "json" \/ ~resp.has_data \/ ~resp.complete
        THEN [result |-> ModelsDefault, requests |-> <<req>>]
        ELSE [result |-> Project(resp.data), requests |-> <<req>>]

\* variant: a get_models that replaces an empty list by the default list
GetModels_EmptyToDefault(api_key, headers, has, avail, force, resp) ==
    LET req == [endpoint |-> "models", auth |-> headers, model |-> ""]
        orDefault(list) == IF list = <<>> THEN ModelsDefault ELSE list
    IN  IF ~ValidateApiKey(api_key)
        THEN [result |-> ModelsDefault, requests |-> <<>>]
        ELSE IF has /\ ~force
        THEN [result |-> orDefault(avail), requests |-> <<>>]
        ELSE IF resp.kind # "json" \/ ~resp.has_data \/ ~resp.complete
        THEN [result |-> ModelsDefault, requests |-> <<req>>]
        ELSE [result |-> orDefault(Project(resp.data)), requests |-> <<req>>]

\* get_models(force_refresh) on a client in the given state, given the
\* answer the remote would give:
\*   [result |-> the list returned, requests |-> the requests issued]
GetModels(api_key, headers, has, avail, force, resp) ==
    LET req == [endpoint |-> "models", auth |-> headers, model |-> ""]
    IN  IF ~ValidateApiKey(api_key)
        THEN \* ValueError, caught by "except Exception": the default list
             [result |-> ModelsDefault, requests |-> <<>>]
        ELSE IF has /\ ~force
        THEN \* hasattr(self, 'available_models') and not force_refresh
             [result |-> avail, requests |-> <<>>]
        ELSE IF resp.kind # "json" \/ ~resp.has_data \/ ~resp.complete
        THEN \* requests.get, response.json(), ["data"], ["name"] raised
             [result |-> ModelsDefault, requests |-> <<req>>]
        ELSE [result |-> Project(resp.data), requests |-> <<req>>]

\* answers of POST /chat/completions: no answer, a non-2xx status
\* (raise_for_status raises), a 2xx body that is not JSON, and 2xx JSON
\* bodies: a completion, a body with an "error" key, a body with neither.
\* Texts are sequences of words.
ChatOk ==
    [kind |-> "json", status |-> 200, has_error |-> FALSE, error |-> <<>>,
     has_choices |-> TRUE, content |-> <<"reply">>, has_usage |-> TRUE,
     total_tokens |-> 7]

ChatErrorBody(words) ==
    [kind |-> "json", status |-> 200, has_error |-> TRUE, error |-> words,
     has_choices |-> FALSE, content |-> <<>>, has_usage |-> FALSE,
     total_tokens |-> 0]

ChatMalformed == [ChatErrorBody(<<>>) EXCEPT !.has_error = FALSE]

RegionWord == "unsupported_country_region_territory"
UnavailableWord == "temporarily unavailable"

ChatResponses(header) ==
    {TransportError}
    \cup (IF header.key \in ValidKeys
          THEN {[kind |-> "http_error", status |-> 503], NotJson, ChatOk,
                ChatMalformed, ChatErrorBody(<<"code", RegionWord>>)}
          ELSE {[kind |-> "http_error", status |-> 401]})

\* the class of an answer of POST /chat/completions
ChatAnswer(resp) ==
    IF resp.kind # "json" THEN resp.kind
    ELSE IF resp.has_error THEN "error_body"
    ELSE IF resp.has_choices THEN "completion"
    ELSE "malformed"

\* str(e) of the exception the request, raise_for_status or json() raised
ExceptionText(resp) ==
    IF resp.kind = "http_error"
    THEN IF resp.status < 500 THEN <<"Client", "Error">>
         ELSE <<"Server", "Error">>
    ELSE IF resp.kind = "not_json" THEN <<"JSONDecodeError">>
    ELSE <<"ConnectionError">>

\* variant: a resolution without the default id for an empty list
ResolveModel_NoDefault(model, avail) ==
    IF model = None \/ model = ""
    THEN (IF avail # <<>> THEN avail[1].id ELSE "")
    ELSE model

\* the model send_message puts in the request: "if not model: ..."
ResolveModel(model, avail) ==
    IF model = None \/ model = ""
    THEN (IF avail # <<>> THEN avail[1].id ELSE DefaultModelId)
    ELSE model

\* variant: a non-2xx answer is returned without the error tag
SendResult_HttpUntagged(resp) ==
    IF resp.kind = "json"
    THEN [has_error |-> resp.has_error, error |-> resp.error,
          has_choices |-> resp.has_choices, content |-> resp.content,
          has_usage |-> resp.has_usage, total_tokens |-> resp.total_tokens]
    ELSE [has_error |-> resp.kind # "http_error", error |-> ExceptionText(resp),
          has_choices |-> FALSE, content |-> <<>>, has_usage |-> FALSE,
          total_tokens |-> 0]

\* the value send_message returns for an answer: the parsed body, or
\* {"error": str(e)} when the request, raise_for_status or json() raised
SendResult(resp) ==
    IF resp.kind = "json"
    THEN [has_error |-> resp.has_error, error |-> resp.error,
          has_choices |-> resp.has_choices, content |-> resp.content,
          has_usage |-> resp.has_usage, total_tokens |-> resp.total_tokens]
    ELSE [has_error |-> TRUE, error |-> ExceptionText(resp),
          has_choices |-> FALSE, content |-> <<>>, has_usage |-> FALSE,
          total_tokens |-> 0]

(***************************************************************************)
(* Notification dispatcher and balance monitor.                            *)
(***************************************************************************)
\* what Bot.send_message does with a message: it is delivered, or the
\* library raises one of its errors (TelegramError and its subclasses)
DeliveryOutcomes == {"delivered", "telegram_error"}

NoDelivery ==
    [chat_id |-> "", text |-> [kind |-> "none"], sent |-> FALSE,
     delivered |-> FALSE, raised |-> ""]

\* variant: the library's error leaves the dispatcher
SendTelegramNotification_Propagate(c, message, delivery) ==
    IF GetAuthData(c) = NoCred \/ GetAuthData(c).telegram_id = ""
    THEN [NoDelivery EXCEPT !.text = message]
    ELSE [chat_id |-> GetAuthData(c).telegram_id, text |-> message, sent |-> TRUE,
          delivered |-> (delivery = "delivered"),
          raised |-> IF delivery = "delivered" THEN "" ELSE "TelegramError"]

\* send_telegram_notification(message) with the stored credential c:
\* without a chat id nothing is sent; otherwise one send_message, whose
\* TelegramError is caught and logged
SendTelegramNotification(c, message, delivery) ==
    IF GetAuthData(c) = NoCred \/ GetAuthData(c).telegram_id = ""
    THEN [NoDelivery EXCEPT !.text = message]
    ELSE [chat_id |-> GetAuthData(c).telegram_id, text |-> message, sent |-> TRUE,
          delivered |-> (delivery = "delivered"), raised |-> ""]

\* variant: a balance equal to the threshold is reported as low
CheckBalanceAndNotify_AtOrBelow(balance_str, threshold) ==
    LET value == ParseFloat(LStrip(balance_str, "$"))
    IN  IF balance_str = ERROR_SENTINEL THEN <<>>
        ELSE IF ~value.ok THEN <<>>
        ELSE IF value.cents <= threshold
        THEN <<[kind |-> "low_balance", value |-> value.cents,
                threshold |-> threshold]>>
        ELSE <<>>

\* check_balance_and_notify after its get_balance(): the messages it hands
\* to send_telegram_notification
CheckBalanceAndNotify(balance_str, threshold) ==
    LET value == ParseFloat(LStrip(balance_str, "$"))
    IN  IF balance_str = ERROR_SENTINEL THEN <<>>
        ELSE IF ~value.ok
        THEN \* float() raised ValueError: logged
             <<>>
        ELSE IF value.cents < threshold
        THEN <<[kind |-> "low_balance", value |-> value.cents,
                threshold |-> threshold]>>
        ELSE <<>>

(***************************************************************************)
(* OpenRouterClient: one client instance and the operations on it.         *)
(***************************************************************************)
NoSend ==
    [has_error |-> FALSE, error |-> <<>>, has_choices |-> FALSE, content |-> <<>>,
     has_usage |-> FALSE, total_tokens |-> 0]

\* the record of an operation that has not run any of its parts
Op(name) ==
    [op |-> name, force |-> FALSE, validate |-> FALSE, model |-> "", threshold |-> 0,
     key_set |-> Truthy(self_api_key), raised |-> "", requests |-> <<>>,
     answer |-> "none", payload_len |-> 0, models |-> <<>>, balance |-> <<>>,
     send |-> NoSend, notified |-> FALSE, chat |-> "none", credits |-> "none",
     credit_cents |-> 0, dispatches |-> <<>>, deliveries |-> <<>>]

NoPrev == [valid |-> FALSE, models |-> <<>>, nreq |-> 0]

\* what prevList keeps of the operation that is about to be followed by another
Summary(l) ==
    IF l.op = "get_models" /\ ~l.force /\ l.answer \in {"none", "ok"} /\ l.key_set
    THEN [valid |-> TRUE, models |-> l.models, nreq |-> Len(l.requests)]
    ELSE NoPrev

ModelArgs == {None, "", "m2"}
Thresholds == {500, 1000}
MessageTexts == {"hi"}

\* OpenRouterClient(api_key=param)
ClientConstruct(param) ==
    /\ self_api_key' = InitApiKey(param, envKey)
    /\ self_headers' = AuthHeader(InitApiKey(param, envKey))
    /\ has_models' = FALSE
    /\ available_models' = <<>>
    /\ last' = [Op("init") EXCEPT !.key_set = Truthy(InitApiKey(param, envKey))]
    /\ prevList' = NoPrev
    /\ UNCHANGED <<vaultVars, appVars>>

\* client.api_key = key (check_api_key does this to a fresh client)
ClientAssignKey(key) ==
    /\ self_api_key' = key
    /\ last' = [Op("assign") EXCEPT !.key_set = Truthy(key)]
    /\ prevList' = NoPrev
    /\ UNCHANGED <<self_headers, has_models, available_models>>
    /\ UNCHANGED <<vaultVars, appVars>>

\* client.update_headers()
ClientUpdateHeaders ==
    /\ self_headers' = AuthHeader(self_api_key)
    /\ last' = Op("update_headers")
    /\ prevList' = NoPrev
    /\ UNCHANGED <<self_api_key, has_models, available_models>>
    /\ UNCHANGED <<vaultVars, appVars>>

\* client.get_models(force_refresh=force)
ClientGetModels(force) ==
    /\ \E resp \in ModelsResponses :
         LET r == GetModels(self_api_key, self_headers, has_models, available_models, force, resp)
         IN  last' = [Op("get_models") EXCEPT
                        !.force = force,
                        !.requests = r.requests,
                        !.answer = IF r.requests = <<>> THEN "none"
                                   ELSE ListAnswer(resp),
                        !.payload_len = IF r.requests = <<>> THEN 0
                                        ELSE PayloadLen(resp),
                        !.models = r.result]
    /\ prevList' = Summary(last)
    /\ UNCHANGED <<self_api_key, self_headers, has_models, available_models>>
    /\ UNCHANGED <<vaultVars, appVars>>

\* client.send_message(message, model)
ClientSendMessage(message, model) ==
    /\ prevList' = NoPrev
    /\ UNCHANGED <<self_api_key, self_headers>>
    /\ UNCHANGED <<vaultVars, appVars>>
    /\ IF ~ValidateApiKey(self_api_key)
       THEN /\ last' = [Op("send_message") EXCEPT !.model = model,
                                                  !.raised = MissingKeyError]
            /\ UNCHANGED <<has_models, available_models>>
       ELSE LET fetch == (model = None \/ model = "") /\ ~has_models
            IN  \E lresp \in (IF fetch THEN ModelsResponses ELSE {TransportError}),
                   cresp \in ChatResponses(self_headers) :
                  LET got == GetModels(self_api_key, self_headers, has_models,
                                       available_models, FALSE, lresp)
                      avail == IF fetch THEN got.result ELSE available_models
                      used == ResolveModel(model, avail)
                      req == [endpoint |-> "chat", auth |-> self_headers,
                              model |-> used]
                  IN  /\ has_models' = (has_models \/ fetch)
                      /\ available_models' = avail
                      /\ last' = [Op("send_message") EXCEPT
                                    !.model = model,
                                    !.requests = (IF fetch THEN got.requests
                                                  ELSE <<>>) \o <<req>>,
                                    !.answer = IF fetch /\ got.requests # <<>>
                                               THEN ListAnswer(lresp) ELSE "none",
                                    !.payload_len = IF fetch /\ got.requests # <<>>
                                                    THEN PayloadLen(lresp) ELSE 0,
                                    !.models = avail,
                                    !.chat = ChatAnswer(cresp),
                                    !.send = SendResult(cresp)]

\* client.get_balance(validate)
ClientGetBalance(validate) ==
    /\ \E resp \in CreditsResponses(self_headers) :
         LET r == GetBalance(self_api_key, self_headers, validate, resp)
         IN  last' = [Op("get_balance") EXCEPT
                        !.validate = validate,
                        !.requests = r.requests,
                        !.credits = IF r.requests = <<>> THEN "none"
                                    ELSE CreditsAnswer(resp),
                        !.credit_cents = IF r.requests = <<>> THEN 0
                                         ELSE RemoteBalance(resp),
                        !.balance = r.result]
    /\ prevList' = NoPrev
    /\ UNCHANGED <<self_api_key, self_headers, has_models, available_models>>
    /\ UNCHANGED <<vaultVars, appVars>>

\* client.check_balance_and_notify(threshold)
ClientCheckBalanceAndNotify(threshold) ==
    /\ \E resp \in CreditsResponses(self_headers),
          delivery \in (IF HasCredential(cred) THEN DeliveryOutcomes
                        ELSE {"delivered"}) :
         LET r == GetBalance(self_api_key, self_headers, TRUE, resp)
             msgs == CheckBalanceAndNotify(r.result, threshold)
             sends == [i \in 1..Len(msgs) |->
                         SendTelegramNotification(cred, msgs[i], delivery)]
         IN  last' = [Op("check_balance_and_notify") EXCEPT
                        !.validate = TRUE,
                        !.threshold = threshold,
                        !.requests = r.requests,
                        !.credits = IF r.requests = <<>> THEN "none"
                                    ELSE CreditsAnswer(resp),
                        !.credit_cents = IF r.requests = <<>> THEN 0
                                         ELSE RemoteBalance(resp),
                        !.balance = r.result,
                        !.dispatches = msgs,
                        !.deliveries = sends,
                        !.raised = IF \E i \in 1..Len(sends) : sends[i].raised # ""
                                   THEN "TelegramError" ELSE "",
                        !.notified = (msgs # <<>>)]
    /\ prevList' = NoPrev
    /\ UNCHANGED <<self_api_key, self_headers, has_models, available_models>>
    /\ UNCHANGED <<vaultVars, appVars>>

ClientInit ==
    /\ \E param \in {None} \cup Keys :
         /\ self_api_key = InitApiKey(param, envKey)
         /\ self_headers = AuthHeader(InitApiKey(param, envKey))
         /\ last = [op |-> "init", force |-> FALSE, validate |-> FALSE, model |-> "",
                    threshold |-> 0, key_set |-> Truthy(InitApiKey(param, envKey)),
                    raised |-> "", requests |-> <<>>, answer |-> "none",
                    payload_len |-> 0, models |-> <<>>, balance |-> <<>>,
                    send |-> NoSend, notified |-> FALSE, chat |-> "none",
                    credits |-> "none", credit_cents |-> 0, dispatches |-> <<>>,
                    deliveries |-> <<>>]
    /\ has_models = FALSE
    /\ available_models = <<>>
    /\ prevList = NoPrev

ClientNext ==
    \/ \E param \in {None} \cup Keys : ClientConstruct(param)
    \/ \E key \in {None, ""} \cup Keys : ClientAssignKey(key)
    \/ ClientUpdateHeaders
    \/ \E force \in BOOLEAN : ClientGetModels(force)
    \/ \E m \in MessageTexts, model \in ModelArgs : ClientSendMessage(m, model)
    \/ \E validate \in BOOLEAN : ClientGetBalance(validate)
    \/ \E t \in Thresholds : ClientCheckBalanceAndNotify(t)

(***************************************************************************)
(* ChatApp: the main window, chat turns, history, export.                  *)
(***************************************************************************)
\* the ids of a list of models
Ids(models) == [i \in 1..Len(models) |-> models[i].id]

PREFERRED_MODELS ==
    <<"deepseek/deepseek-coder", "anthropic/claude-3-sonnet",
      "deepseek/deepseek-r1-distill-llama-70b:free">>

\* filter_and_sort_models: the preferred models in the order of
\* PREFERRED_MODELS, then the others in the order given
FilterAndSortModels(models) ==
    LET IsPreferred(m) == \E i \in 1..Len(PREFERRED_MODELS) : PREFERRED_MODELS[i] = m.id
        IsOther(m) == ~IsPreferred(m)
        At(i) == LET Is(m) == m.id = PREFERRED_MODELS[i] IN SelectSeq(models, Is)
    IN  At(1) \o At(2) \o At(3) \o SelectSeq(models, IsOther)

\* ---- ChatCache, message table (from the specification) ----
\* appendMessage / save_message: one row, stamped with the current time
SaveMessage(h, clk, model, user_message, ai_response, tokens_used) ==
    Append(h, <<clk + 1, model, user_message, ai_response, clk + 1, tokens_used>>)

\* getChatHistory / get_chat_history: every row, oldest first
GetChatHistory(h) == h

\* clearHistory / clear_history: every row removed
ClearHistoryRows == <<>>

\* ---- the remote, as the application meets it ----
\* GET /credits at login: no answer, a body that is not JSON, bodies
\* without a balance, and accounts with funds
AppCreditsResponses(header) ==
    {r \in CreditsResponses(header) :
        CreditsAnswer(r) = "ok" => RemoteBalance(r) > 0}

\* GET /models: the remote lists no model, or m1 and m2
AppModelsResponses ==
    {r \in ModelsResponses :
        /\ ListAnswer(r) = "ok"
        /\ Ids(Project(r.data)) \in {<<>>, <<"m1", "m2">>}}

\* POST /chat/completions during a turn: no answer, a completion, a body
\* without choices
AppChatResponses(header) ==
    ChatResponses(header) \cap {TransportError, ChatOk, ChatMalformed}

\* ---- login ----
\* variant: the login notification goes through the threshold check
InitializeApiClient_ThresholdCheck(c, env, resp, delivery) ==
    LET key == InitApiKey(GetAuthData(c).api_key, env)
        hdr == AuthHeader(key)
        bal == GetBalance(key, hdr, TRUE, resp)
        msgs == CheckBalanceAndNotify(bal.result, 500)
        notes == [i \in 1..Len(msgs) |-> SendTelegramNotification(c, msgs[i], delivery)]
        failed == \E i \in 1..Len(notes) : notes[i].raised # ""
    IN  IF bal.result = ERROR_SENTINEL
        THEN [ok |-> FALSE, api_key |-> key, headers |-> hdr, balance |-> bal.result,
              requests |-> bal.requests, dispatches |-> <<>>, deliveries |-> <<>>,
              raised |-> "ValueError"]
        ELSE [ok |-> ~failed, api_key |-> key, headers |-> hdr,
              balance |-> bal.result, requests |-> bal.requests,
              dispatches |-> msgs, deliveries |-> notes,
              raised |-> IF failed THEN "ValueError" ELSE ""]

\* initialize_api_client with the stored credential c: the client is built
\* with the stored key, the balance is read, and when the read succeeded a
\* "current balance" notification is sent; any exception ends in ValueError
InitializeApiClient(c, env, resp, delivery) ==
    LET key == InitApiKey(GetAuthData(c).api_key, env)
        hdr == AuthHeader(key)
        bal == GetBalance(key, hdr, TRUE, resp)
        msg == [kind |-> "current_balance", balance |-> bal.result]
        note == SendTelegramNotification(c, msg, delivery)
    IN  IF bal.result = ERROR_SENTINEL
        THEN [ok |-> FALSE, api_key |-> key, headers |-> hdr, balance |-> bal.result,
              requests |-> bal.requests, dispatches |-> <<>>, deliveries |-> <<>>,
              raised |-> "ValueError"]
        ELSE [ok |-> (note.raised = ""), api_key |-> key, headers |-> hdr,
              balance |-> bal.result, requests |-> bal.requests,
              dispatches |-> <<msg>>, deliveries |-> <<note>>,
              raised |-> IF note.raised = "" THEN "" ELSE "ValueError"]

\* show_main_ui, run by the on_auth_success coroutine: the page is cleaned,
\* the client initialised, the model list fetched and the main window built;
\* an exception leaves the cleaned page with a snack bar
ShowMainUI ==
    /\ unlocked
    /\ screen \in {"pin_login", "first_login"}
    /\ ~login.done
    /\ IF GetAuthData(cred) = NoCred
       THEN /\ screen' = "blank"
            /\ login' = [NoLogin EXCEPT !.done = TRUE, !.raised = "ValueError"]
            /\ UNCHANGED <<self_api_key, self_headers, has_models, available_models,
                           app_ready, options, dropdown>>
       ELSE \E resp \in AppCreditsResponses(AuthHeader(InitApiKey(cred.api_key, envKey))),
               delivery \in DeliveryOutcomes, lresp \in AppModelsResponses :
              LET r == InitializeApiClient(cred, envKey, resp, delivery)
                  all_models == GetModels(r.api_key, r.headers, FALSE, <<>>, FALSE,
                                          lresp).result
                  models == FilterAndSortModels(all_models)
              IN  /\ self_api_key' = r.api_key
                  /\ self_headers' = r.headers
                  /\ has_models' = FALSE
                  /\ available_models' = <<>>
                  /\ login' = [done |-> TRUE,
                               credits |-> IF r.requests = <<>> THEN "none"
                                           ELSE CreditsAnswer(resp),
                               credit_cents |-> IF r.requests = <<>> THEN 0
                                                ELSE RemoteBalance(resp),
                               balance |-> r.balance,
                               dispatches |-> r.dispatches,
                               deliveries |-> r.deliveries,
                               raised |-> r.raised]
                  /\ app_ready' = r.ok
                  /\ screen' = IF r.ok THEN "main" ELSE "blank"
                  /\ options' = IF r.ok THEN Ids(models) ELSE <<>>
                  /\ dropdown' = IF r.ok /\ models # <<>> THEN models[1].id ELSE None
    /\ turns' = [t \in Slots |-> IdleTurn]
    /\ clearDialog' = "none"
    /\ UNCHANGED <<cred, envKey, dialogPin, authError, unlocked, pinVerified,
                   firstLoginDone, shownPin, savedSinceReset, validatedAuth,
                   startedWithCredential>>
    /\ UNCHANGED <<last, prevList>>
    /\ UNCHANGED <<history, clock, exported, started>>

\* ---- a chat turn: send_message_click ----
Range(seq) == {seq[i] : i \in 1..Len(seq)}

\* the text shown for response["error"]: two remote errors are replaced
ErrorText(error) ==
    IF RegionWord \in Range(error)
    THEN <<"Model", "nedostupna", "v", "vashem", "regione">>
    ELSE IF UnavailableWord \in Range(error)
    THEN <<"Model", "vremenno", "nedostupna">>
    ELSE error

\* send_message_click after the await: what is stored for the value the
\* worker produced.  An exception of send_message, and the KeyError of a
\* body without choices, go to the except clause, which stores nothing.
TurnOutcome(raised, response) ==
    IF raised # ""
    THEN [save |-> FALSE, ai_response |-> <<>>, tokens_used |-> 0]
    ELSE IF response.has_error
    THEN [save |-> TRUE, ai_response |-> <<"Oshibka:">> \o ErrorText(response.error),
          tokens_used |-> 0]
    ELSE IF ~response.has_choices
    THEN [save |-> FALSE, ai_response |-> <<>>, tokens_used |-> 0]
    ELSE [save |-> TRUE, ai_response |-> response.content,
          tokens_used |-> IF response.has_usage THEN response.total_tokens ELSE 0]

\* the slot the next coroutine takes
FreeSlot(t) ==
    /\ turns[t].phase = "idle"
    /\ \A u \in Slots : u < t => turns[u].phase # "idle"

\* send_message_click up to its await: an empty input returns at once,
\* otherwise the text is taken and the remote call handed to the executor
SendMessageClick(text) ==
    /\ app_ready /\ clearDialog # "open"
    /\ IF text = ""
       THEN UNCHANGED <<turns, started>>
       ELSE /\ started < MaxTurns
            /\ \E t \in Slots :
                 /\ FreeSlot(t)
                 /\ turns' = [turns EXCEPT ![t] =
                                [IdleTurn EXCEPT !.phase = "dispatched",
                                                 !.user_message = text]]
            /\ started' = started + 1
    /\ UNCHANGED <<vaultVars, clientVars>>
    /\ UNCHANGED <<history, clock, exported, app_ready, login, options, dropdown,
                   clearDialog>>

\* the worker thread, first part of api_client.send_message: the lambda
\* reads model_dropdown.value, the key is validated, and the list is
\* fetched when no model is given and the client has no list yet
WorkerStart(t) ==
    /\ turns[t].phase = "dispatched"
    /\ IF ~ValidateApiKey(self_api_key)
       THEN turns' = [turns EXCEPT ![t].phase = "returned",
                                   ![t].model = dropdown,
                                   ![t].raised = MissingKeyError]
       ELSE LET fetch == (dropdown = None \/ dropdown = "") /\ ~has_models
            IN  \E lresp \in (IF fetch THEN AppModelsResponses ELSE {TransportError}) :
                  turns' = [turns EXCEPT
                              ![t].phase = "posting",
                              ![t].model = dropdown,
                              ![t].fetched = fetch,
                              ![t].fetched_models =
                                  IF fetch
                                  THEN GetModels(self_api_key, self_headers, has_models,
                                                 available_models, FALSE, lresp).result
                                  ELSE <<>>]
    /\ UNCHANGED <<vaultVars, clientVars>>
    /\ UNCHANGED <<history, clock, exported, app_ready, login, options, dropdown,
                   started, clearDialog>>

\* variant: the worker thread stores the turn itself
WorkerFinish_Saves(t) ==
    /\ turns[t].phase = "posting"
    /\ LET avail == IF turns[t].fetched THEN turns[t].fetched_models
                    ELSE available_models
       IN  /\ has_models' = (has_models \/ turns[t].fetched)
           /\ available_models' = avail
           /\ \E cresp \in AppChatResponses(self_headers) :
                /\ turns' = [turns EXCEPT
                               ![t].phase = "returned",
                               ![t].model = ResolveModel(turns[t].model, avail),
                               ![t].fetched = FALSE,
                               ![t].fetched_models = <<>>,
                               ![t].response = SendResult(cresp)]
                /\ history' = SaveMessage(history, clock, dropdown,
                                          turns[t].user_message,
                                          SendResult(cresp).content, 0)
    /\ clock' = clock + 1
    /\ UNCHANGED <<self_api_key, self_headers, last, prevList>>
    /\ UNCHANGED vaultVars
    /\ UNCHANGED <<exported, app_ready, login, options, dropdown, started, clearDialog>>

\* the worker thread, second part: the fetched list is kept, the model
\* resolved, the request posted and the result handed back
WorkerFinish(t) ==
    /\ turns[t].phase = "posting"
    /\ LET avail == IF turns[t].fetched THEN turns[t].fetched_models
                    ELSE available_models
       IN  /\ has_models' = (has_models \/ turns[t].fetched)
           /\ available_models' = avail
           /\ \E cresp \in AppChatResponses(self_headers) :
                turns' = [turns EXCEPT
                            ![t].phase = "returned",
                            ![t].model = ResolveModel(turns[t].model, avail),
                            ![t].fetched = FALSE,
                            ![t].fetched_models = <<>>,
                            ![t].response = SendResult(cresp)]
    /\ UNCHANGED <<self_api_key, self_headers, last, prevList>>
    /\ UNCHANGED vaultVars
    /\ UNCHANGED <<history, clock, exported, app_ready, login, options, dropdown,
                   started, clearDialog>>

\* send_message_click from its await on, back on the event loop: the
\* record is saved with the model the dropdown shows now
ResumeTurn(t) ==
    /\ turns[t].phase = "returned"
    /\ LET out == TurnOutcome(turns[t].raised, turns[t].response)
       IN  IF out.save
           THEN /\ history' = SaveMessage(history, clock, dropdown,
                                          turns[t].user_message, out.ai_response,
                                          out.tokens_used)
                /\ clock' = clock + 1
           ELSE UNCHANGED <<history, clock>>
    /\ turns' = [turns EXCEPT ![t] = IdleTurn]
    /\ UNCHANGED <<vaultVars, clientVars>>
    /\ UNCHANGED <<exported, app_ready, login, options, dropdown, started, clearDialog>>

\* the user picks another entry of the dropdown
ChangeModel(m) ==
    /\ app_ready /\ clearDialog # "open"
    /\ m \in Range(options) /\ m # dropdown
    /\ dropdown' = m
    /\ UNCHANGED <<vaultVars, clientVars>>
    /\ UNCHANGED <<history, clock, exported, app_ready, login, options, turns,
                   started, clearDialog>>

\* ---- clearing the history ----
\* confirm_clear_history: the confirmation dialog opens
ConfirmClearHistory ==
    /\ app_ready /\ clearDialog # "open"
    /\ clearDialog' = "open"
    /\ turns' = [t \in Slots |-> [turns[t] EXCEPT !.cleared = FALSE]]
    /\ UNCHANGED <<vaultVars, clientVars>>
    /\ UNCHANGED <<history, clock, exported, app_ready, login, options, dropdown,
                   started>>

\* variant: the cancel button clears as well
CloseDlg_Clears ==
    /\ clearDialog = "open"
    /\ clearDialog' = "cancelled"
    /\ history' = ClearHistoryRows
    /\ UNCHANGED <<vaultVars, clientVars>>
    /\ UNCHANGED <<clock, exported, app_ready, login, options, dropdown, turns,
                   started>>

\* close_dlg: "Отмена" closes the dialog
CloseDlg ==
    /\ clearDialog = "open"
    /\ clearDialog' = "cancelled"
    /\ UNCHANGED <<vaultVars, clientVars>>
    /\ UNCHANGED <<history, clock, exported, app_ready, login, options, dropdown,
                   turns, started>>

\* clear_confirmed: "Очистить" runs clear_history and closes the dialog
ClearConfirmed ==
    /\ clearDialog = "open"
    /\ history' = ClearHistoryRows
    /\ clearDialog' = "confirmed"
    /\ turns' = [t \in Slots |->
                   [turns[t] EXCEPT !.cleared = (turns[t].phase # "idle")]]
    /\ UNCHANGED <<vaultVars, clientVars>>
    /\ UNCHANGED <<clock, exported, app_ready, login, options, dropdown, started>>

\* ---- export ----
\* json.dump of a value: null, a string, a number written in decimal
JsonString(x) == IF x = None THEN [json |-> "null"] ELSE [json |-> "string", chars |-> x]

JsonText(words) == [json |-> "string", chars |-> words]

JsonNumber(n) == [json |-> "number", digits |-> NatStr(n)]

\* json.load of a dumped value
JsonLoad(j) ==
    IF j.json = "null" THEN None
    ELSE IF j.json = "number" THEN DigitsVal(j.digits)
    ELSE j.chars

\* variant: the export walks the rows newest first
ExportFile_Reversed(rows) ==
    [i \in 1..Len(rows) |->
        [timestamp |-> JsonNumber(rows[Len(rows) + 1 - i][5]),
         model |-> JsonString(rows[Len(rows) + 1 - i][2]),
         user_message |-> JsonString(rows[Len(rows) + 1 - i][3]),
         ai_response |-> JsonText(rows[Len(rows) + 1 - i][4]),
         tokens_used |-> JsonNumber(rows[Len(rows) + 1 - i][6])]]

\* save_dialog: one object per row, in the order get_chat_history gives
ExportFile(rows) ==
    [i \in 1..Len(rows) |->
        [timestamp |-> JsonNumber(rows[i][5]),
         model |-> JsonString(rows[i][2]),
         user_message |-> JsonString(rows[i][3]),
         ai_response |-> JsonText(rows[i][4]),
         tokens_used |-> JsonNumber(rows[i][6])]]

SaveDialog ==
    /\ app_ready /\ clearDialog # "open"
    /\ exported' = ExportFile(GetChatHistory(history))
    /\ UNCHANGED <<vaultVars, clientVars>>
    /\ UNCHANGED <<history, clock, app_ready, login, options, dropdown, turns,
                   started, clearDialog>>

\* show_analytics: the statistics are read and shown
ShowAnalytics ==
    /\ app_ready /\ clearDialog # "open"
    /\ UNCHANGED vars

\* an installation with a stored credential and no message, before show_auth
AppInit ==
    /\ \E k \in Keys : cred = SaveAuthData(k, <<"0", "0", "0", "0">>, "t1")
    /\ envKey = "k1"
    /\ screen = "none"
    /\ dialogPin = NoPin
    /\ authError = ""
    /\ unlocked = FALSE
    /\ pinVerified = FALSE
    /\ firstLoginDone = FALSE
    /\ shownPin = <<"0", "0", "0", "0">>
    /\ savedSinceReset = TRUE
    /\ validatedAuth = AuthHeader("k1")
    /\ startedWithCredential = FALSE
    /\ ClientInit
    /\ self_api_key = envKey
    /\ AppFresh

\* the rows a stored history can hold
HistoryRows(i) ==
    {<<i, m, "hi", a[1], i, a[2]>> :
        m \in {"m1", "m2"},
        a \in {<<<<"reply">>, 7>>, <<<<"reply">>, 0>>,
               <<<<"Oshibka:", "ConnectionError">>, 0>>}}

\* the main window of a session in which an export is made: any history
\* of up to MaxTurns rows
ExportInit ==
    /\ cred = SaveAuthData("k1", <<"0", "0", "0", "0">>, "t1")
    /\ envKey = "k1"
    /\ screen = "main"
    /\ dialogPin = NoPin
    /\ authError = ""
    /\ unlocked = TRUE
    /\ pinVerified = TRUE
    /\ firstLoginDone = FALSE
    /\ shownPin = <<"0", "0", "0", "0">>
    /\ savedSinceReset = TRUE
    /\ validatedAuth = AuthHeader("k1")
    /\ startedWithCredential = TRUE
    /\ ClientInit
    /\ self_api_key = "k1"
    /\ \E n \in 0..MaxTurns :
         /\ history \in [1..n -> UNION {HistoryRows(i) : i \in 1..n}]
         /\ \A i \in 1..n : history[i][1] = i
         /\ clock = n
         /\ started = n
    /\ exported = <<>>
    /\ app_ready = TRUE
    /\ login = [done |-> TRUE, credits |-> "ok", credit_cents |-> 1000,
                balance |-> FormatBalance(1000),
                dispatches |-> <<[kind |-> "current_balance",
                                  balance |-> FormatBalance(1000)]>>,
                deliveries |-> <<[chat_id |-> "t1",
                                  text |-> [kind |-> "current_balance",
                                            balance |-> FormatBalance(1000)],
                                  sent |-> TRUE, delivered |-> TRUE, raised |-> ""]>>,
                raised |-> ""]
    /\ options = <<"m1", "m2">>
    /\ dropdown = "m1"
    /\ turns = [t \in Slots |-> IdleTurn]
    /\ clearDialog = "none"

ExportNext ==
    \/ SaveDialog
    \/ ConfirmClearHistory
    \/ CloseDlg
    \/ ClearConfirmed

AppNext ==
    \/ ShowAuth
    \/ \E pin \in PinInputs : HandlePinLogin(pin) /\ screen' = screen
    \/ HandleReset
    \/ Restart
    \/ ShowMainUI
    \/ \E text \in MessageTexts \cup {""} : SendMessageClick(text)
    \/ \E t \in Slots : WorkerStart(t)
    \/ \E t \in Slots : WorkerFinish(t)
    \/ \E t \in Slots : ResumeTurn(t)
    \/ \E m \in Range(options) : ChangeModel(m)
    \/ ConfirmClearHistory
    \/ CloseDlg
    \/ ClearConfirmed
    \/ ShowAnalytics

(***************************************************************************)
(* Specifications.                                                         *)
(***************************************************************************)
Init == VaultInit /\ ClientInit /\ AppFresh

\* the login flow; the client instance is left alone
VaultSpec == Init /\ [][VaultNext]_vars

\* the operations of one client instance; the vault is left alone
ClientSpec == Init /\ [][ClientNext]_vars

\* the application after a credential was stored: PIN login, main window,
\* chat turns with their worker threads, clearing, export
AppSpec == AppInit /\ [][AppNext]_vars

\* exports of a stored history from the main window
ExportSpec == ExportInit /\ [][ExportNext]_vars

(***************************************************************************)
(* Credential vault: properties.                                           *)
(***************************************************************************)
\* C1: in every state reached by any sequence of first logins, PIN entries
\* and resets, verifyPin(candidate) is true exactly when a credential has
\* been saved and not reset since and candidate is the PIN that the latest
\* first login displayed; every other input, and every input after a reset,
\* is rejected.
C1_VerifyPinExact ==
    \A candidate \in PinInputs :
        VerifyPin(cred, candidate) <=> (savedSinceReset /\ candidate = shownPin)

\* a run in which a wrong PIN was rejected and the displayed PIN accepted
C1_Witness ==
    /\ pinVerified
    /\ authError = MsgBadPin
    /\ VerifyPin(cred, shownPin)

\* C2 (as stated): the auth-success callback is invoked only after a
\* successful verifyPin.
C2_UnlockOnlyByPin == unlocked => pinVerified

\* C2 (amended): the auth-success callback is invoked only after a
\* successful verifyPin in this run, or from the PIN dialog of a first login
\* that saved a credential in this run.
C2_UnlockPaths == unlocked => (pinVerified \/ firstLoginDone)

\* the session was unlocked by completing first login, no PIN entered
C2_Witness == unlocked /\ ~pinVerified /\ firstLoginDone /\ dialogPin = NoPin

\* C3: hasCredential() is true exactly when a save succeeded and no reset
\* happened since; the PIN form is on the page only when it is true, and
\* the first-login form only when it is false or while that first login is
\* completing (its PIN dialog is open, or it has invoked the callback).
C3_HasCredential ==
    /\ HasCredential(cred) <=> savedSinceReset
    /\ screen = "pin_login" => HasCredential(cred)
    /\ screen = "first_login" =>
         (~HasCredential(cred) \/ dialogPin # NoPin \/ (unlocked /\ firstLoginDone))

\* a credential was saved and then reset: first login is shown again
C3_Witness ==
    /\ ~HasCredential(cred)
    /\ shownPin # NoPin
    /\ screen = "first_login"

\* C4: a stored credential holds the key whose validation request succeeded:
\* the Authorization header of that request was the bearer form of the
\* stored api_key.
C4_StoredKeyValidated ==
    HasCredential(cred) => validatedAuth = AuthHeader(cred.api_key)

(***************************************************************************)
(* API gateway client: properties.                                         *)
(***************************************************************************)
\* C5: when get_models() without force_refresh directly follows another
\* get_models() without force_refresh on the same client, and neither met a
\* failure, the second call returns the sequence the first returned and is
\* served from the cache: the two calls issue at most one request, none of
\* it by the second.
C5_SecondCallFromCache ==
    (/\ prevList.valid
     /\ last.op = "get_models" /\ ~last.force /\ last.key_set
     /\ last.answer \in {"none", "ok"})
    => /\ last.models = prevList.models
       /\ last.requests = <<>>
       /\ prevList.nreq <= 1

\* C6 (as stated): with a key set, get_models issues a request exactly when
\* the cache is empty (missing, or an empty list) or force_refresh is set.
C6_RemoteCallIffEmptyOrForce ==
    (last.op = "get_models" /\ last.key_set)
    => ((last.requests # <<>>)
          <=> (~has_models \/ available_models = <<>> \/ last.force))

\* C6 (amended): with a key set, get_models issues a request exactly when
\* the client has no cache attribute yet or force_refresh is set; with the
\* attribute set and no force_refresh it returns the cached list, whatever
\* its length, and issues no request.
C6_RemoteCallIffUnsetOrForce ==
    (last.op = "get_models" /\ last.key_set)
    => /\ (last.requests # <<>>) <=> (~has_models \/ last.force)
       /\ Len(last.requests) <= 1
       /\ (has_models /\ ~last.force) => last.models = available_models

\* get_models served an empty cached list without asking the remote
C6_Witness ==
    /\ last.op = "get_models" /\ last.key_set /\ ~last.force
    /\ has_models /\ available_models = <<>>
    /\ last.requests = <<>> /\ last.models = <<>>

\* C7: get_models never raises, and when its request meets a transport or
\* parse failure it returns the three fallback ids deepseek-coder,
\* claude-3-sonnet, gpt-3.5-turbo, in that order.
C7_FallbackOnFailure ==
    last.op = "get_models"
    => /\ last.raised = ""
       /\ last.answer \in {"transport_error", "not_json", "no_data", "incomplete"}
            => Ids(last.models) = <<"deepseek-coder", "claude-3-sonnet", "gpt-3.5-turbo">>

\* a forced refresh of a cached list met an answer that is not JSON
C7_Witness ==
    /\ last.op = "get_models" /\ last.answer = "not_json"
    /\ has_models /\ last.force
    /\ Len(last.models) = 3

\* C8 (as stated): every result of get_models is a non-empty sequence.
C8_NonEmpty == last.op = "get_models" => last.models # <<>>

\* C8 (amended): the result of get_models is empty exactly when a successful
\* remote answer carries an empty data array, or when the cache holds an
\* empty list and is served; every other result, the fallback included, is
\* non-empty.
C8_EmptyOnlyFromRemote ==
    last.op = "get_models"
    => ((last.models = <<>>)
          <=> \/ (last.answer = "ok" /\ last.payload_len = 0)
              \/ (/\ last.answer = "none" /\ last.key_set /\ ~last.force
                  /\ has_models /\ available_models = <<>>))

\* the remote answered a list request with an empty array
C8_Witness ==
    /\ last.op = "get_models" /\ last.answer = "ok" /\ last.payload_len = 0
    /\ last.models = <<>>

RemoteOps == {"get_models", "send_message", "get_balance", "check_balance_and_notify"}

C10_ModelResolved ==
    (last.op = "send_message" /\ last.raised = "")
    => LET req == last.requests[Len(last.requests)]
       IN  /\ req.endpoint = "chat"
           /\ \A i \in 1..(Len(last.requests) - 1) : last.requests[i].endpoint # "chat"
           /\ req.model # "" /\ req.model # None
           /\ last.model \notin {None, ""} => req.model = last.model
           /\ last.model \in {None, ""} =>
                \A resp \in ModelsResponses :
                    LET listed == GetModels(self_api_key, self_headers, has_models,
                                            available_models, FALSE, resp).result
                    IN  req.model = IF listed # <<>> THEN listed[1].id
                                    ELSE "gpt-3.5-turbo"

\* send_message without a model, the model list being empty: the default id
C10_Witness ==
    /\ last.op = "send_message" /\ last.raised = "" /\ last.model = ""
    /\ available_models = <<>>
    /\ last.requests[Len(last.requests)].model = "gpt-3.5-turbo"

(***************************************************************************)
(* API gateway client: error handling, balance monitor, retries.           *)
(***************************************************************************)
\* C11: a chat-completion request that gets no answer or a non-2xx answer
\* makes send_message return a result carrying the error tag, with a
\* non-empty error text, and nothing is raised; a request answered with a
\* completion returns it without the error tag.
C11_ErrorTagged ==
    (last.op = "send_message" /\ last.chat # "none")
    => /\ last.raised = ""
       /\ last.chat \in {"transport_error", "http_error"}
            => (last.send.has_error /\ last.send.error # <<>>)
       /\ last.chat = "completion"
            => (~last.send.has_error /\ last.send.content = <<"reply">>)

\* a 503 answer came back as a tagged result
C11_Witness ==
    /\ last.op = "send_message" /\ last.chat = "http_error"
    /\ last.send.has_error /\ last.send.error = <<"Server", "Error">>
    /\ last.raised = ""

\* C12: get_balance never raises and returns one of two kinds of result:
\* the error sentinel for a missing key under validate=True, for a request
\* without an answer, for a body that is not JSON or is empty, and for a
\* body without a data object; otherwise "$" followed by the decimal
\* rendering of total_credits - total_usage.
C12_BalanceNeverRaises ==
    last.op = "get_balance"
    => /\ last.raised = ""
       /\ (last.validate /\ ~last.key_set) => last.balance = ERROR_SENTINEL
       /\ last.credits \in {"transport_error", "not_json", "empty", "no_data"}
            => last.balance = ERROR_SENTINEL
       /\ last.credits = "ok"
            => /\ last.balance # ERROR_SENTINEL
               /\ last.balance[1] = "$"
               /\ ParseFloat(LStrip(last.balance, "$"))
                    = [ok |-> TRUE, cents |-> last.credit_cents]
       /\ \/ last.balance = ERROR_SENTINEL
          \/ last.balance[1] = "$" /\ ParseFloat(LStrip(last.balance, "$")).ok

\* credits 10.00 and usage 7.50 were read as "$2.50"
C12_Witness ==
    /\ last.op = "get_balance" /\ last.credits = "ok"
    /\ last.balance = <<"$", "2", ".", "5", "0">>

\* C13: check_balance_and_notify hands a notification to the dispatcher if
\* and only if the balance read succeeded and the balance is strictly below
\* the threshold; it hands over one message then, none otherwise.
C13_NotifyIffBelow ==
    last.op = "check_balance_and_notify"
    => /\ last.notified <=> (last.credits = "ok" /\ last.credit_cents < last.threshold)
       /\ Len(last.dispatches) = IF last.notified THEN 1 ELSE 0

\* a balance equal to the threshold: no notification
C13_Witness ==
    /\ last.op = "check_balance_and_notify" /\ last.credits = "ok"
    /\ last.credit_cents = last.threshold
    /\ ~last.notified

\* the number of requests to an endpoint among the requests of an operation
CountRequests(reqs, endpoint) ==
    Cardinality({i \in 1..Len(reqs) : reqs[i].endpoint = endpoint})

\* C19: no operation repeats a remote call: a send_message issues at most
\* one chat request (and at most one list request), a get_models at most one
\* list request, a get_balance at most one credits request, and a
\* check_balance_and_notify at most one credits request and one
\* notification; a failed request is not followed by a second one.
C19_NoRetry ==
    /\ CountRequests(last.requests, "chat") <= 1
    /\ CountRequests(last.requests, "models") <= 1
    /\ CountRequests(last.requests, "credits") <= 1
    /\ Len(last.requests) <=
         (IF last.op = "send_message" THEN 2
          ELSE IF last.op \in RemoteOps THEN 1 ELSE 0)
    /\ Len(last.dispatches) <= 1
    /\ Len(last.deliveries) <= 1

\* a balance request that got no answer was issued once
C19_Witness ==
    /\ last.op = "get_balance" /\ last.credits = "transport_error"
    /\ Len(last.requests) = 1

C15_NotifyOnlyBelowThreshold ==
    (login.done /\ login.dispatches # <<>>) => login.credit_cents < 500

\* C15 (amended): during login no threshold is consulted: a "current
\* balance" notification carrying the balance string is dispatched exactly
\* when the balance read succeeded, whether the balance is below, at or
\* above 5.00; when the read failed nothing is dispatched and the login
\* fails.
C15_LoginAlwaysNotifies ==
    login.done
    => /\ Len(login.dispatches) = IF login.credits = "ok" THEN 1 ELSE 0
       /\ login.credits = "ok"
            => /\ login.dispatches[1].kind = "current_balance"
               /\ login.dispatches[1].balance = login.balance
       /\ login.credits # "ok" => ~app_ready

\* a balance of 10.00 was read at login and a notification dispatched
C15_Witness ==
    /\ login.done /\ login.credits = "ok" /\ login.credit_cents = 1000
    /\ Len(login.dispatches) = 1

\* C16 (as stated): every chat turn that ends appends exactly one row: the
\* reply and its token count for a completion, an error text with 0 tokens
\* for every failure.
C16_EveryTurnStored ==
    [][\A t \in Slots :
         (turns[t].phase = "returned" /\ turns'[t].phase = "idle" /\ app_ready')
         => /\ Len(history') = Len(history) + 1
            /\ history'[Len(history')][3] = turns[t].user_message
            /\ history'[Len(history')][4] # <<>>
            /\ turns[t].response.has_choices
                 => /\ history'[Len(history')][4] = turns[t].response.content
                    /\ history'[Len(history')][6] = turns[t].response.total_tokens
            /\ ~turns[t].response.has_choices => history'[Len(history')][6] = 0]_vars

\* C17: rows leave the history only through the confirmed clear, which
\* removes them all: every other step keeps the history or appends one row
\* to it.
C17_OnlyConfirmedClear ==
    [][\/ history' = history
       \/ /\ Len(history') = Len(history) + 1
          /\ SubSeq(history', 1, Len(history)) = history
       \/ /\ clearDialog = "open" /\ clearDialog' = "confirmed"
          /\ history' = <<>>]_vars

\* rows were stored and the confirmed clear left none
C17_Witness ==
    /\ clearDialog = "confirmed" /\ history = <<>> /\ clock > 0

\* C18: an export writes one object per stored row, in the order of the
\* history (oldest first); read back, the objects give the model, the user
\* message, the response and the token count of the row at the same
\* position; the export leaves the history as it was.
C18_ExportRoundTrip ==
    [][exported' # exported
       => /\ history' = history
          /\ Len(exported') = Len(history)
          /\ \A i \in 1..Len(history) :
               /\ JsonLoad(exported'[i].model) = history[i][2]
               /\ JsonLoad(exported'[i].user_message) = history[i][3]
               /\ JsonLoad(exported'[i].ai_response) = history[i][4]
               /\ JsonLoad(exported'[i].tokens_used) = history[i][6]]_vars

\* two rows with different models were exported, the older one first
C18_Witness ==
    /\ Len(exported) = 2 /\ Len(history) = 2
    /\ JsonLoad(exported[1].model) = "m1" /\ JsonLoad(exported[2].model) = "m2"
    /\ history[1][2] = "m1" /\ history[2][2] = "m2"
    /\ JsonLoad(exported[1].timestamp) < JsonLoad(exported[2].timestamp)

\* a step of a worker thread: a turn moves on inside api_client.send_message
WorkerStep ==
    \E t \in Slots :
        /\ turns[t].phase \in {"dispatched", "posting"}
        /\ turns'[t].phase \in {"posting", "returned"}
        /\ turns'[t].phase # turns[t].phase

\* C20: the store is written by the event loop alone, one write at a time:
\* no step of a worker thread changes the credential or the history, no
\* step changes both, and a row is appended only by the coroutine whose
\* worker has handed its result back.
C20_StoreWritesSerialized ==
    [][(history' # history \/ cred' # cred)
       => /\ ~WorkerStep
          /\ ~(history' # history /\ cred' # cred)
          /\ Len(history') > Len(history)
               => \E t \in Slots :
                    /\ turns[t].phase = "returned" /\ turns'[t].phase = "idle"
                    /\ history'[Len(history')][3] = turns[t].user_message]_vars

\* a row of one turn is stored while another turn is on a worker thread
C20_Witness ==
    /\ Len(history) = 1
    /\ \E t \in Slots : turns[t].phase = "posting"

(***************************************************************************)
(* C21: the unlocked state is not persisted.                               *)
(***************************************************************************)

\* C21 (as stated): in a run whose show_auth found a stored credential,
\* the session is unlocked only after a verify_pin of that run succeeded.
C21_MainOnlyAfterVerifyPin ==
    startedWithCredential /\ unlocked => pinVerified

\* C21 (amended): a run begins locked; with a stored credential it begins
\* at PIN entry and leaves that form only by a successful verify_pin or by
\* a reset, and it is unlocked only after a successful verify_pin or after
\* a first login completed in this run (which follows a reset).
C21_UnlockedNotPersisted ==
    /\ screen = "none" => ~unlocked /\ ~pinVerified
    /\ startedWithCredential /\ cred # NoCred /\ ~firstLoginDone
         => screen = "pin_login" \/ pinVerified
    /\ startedWithCredential /\ unlocked
         => pinVerified \/ (firstLoginDone /\ savedSinceReset)

\* a run started with a stored credential reached the main UI after a
\* successful verify_pin
C21_Witness ==
    startedWithCredential /\ unlocked /\ pinVerified /\ screen = "main"

(***************************************************************************)
(* C22: the Authorization header of a request.                             *)
(***************************************************************************)

\* C22: every request the latest operation issued carries the bearer form
\* of the client's current api_key (the empty header when no key is set).
C22_RequestsCarryCurrentKey ==
    \A i \in DOMAIN last.requests :
        last.requests[i].auth = AuthHeader(self_api_key)

(***************************************************************************)
(* C23: the model a turn's record names.                                   *)
(***************************************************************************)

\* C23: when a turn that came back from the worker stores its record, the
\* model of that record is the model id its chat-completion request was
\* sent with.
C23_StoredModelIsSentModel ==
    [][\A t \in Slots :
          (/\ turns[t].phase = "returned"
           /\ turns'[t].phase = "idle"
           /\ Len(history') = Len(history) + 1)
          => history'[Len(history')][2] = turns[t].model]_vars

(***************************************************************************)
(* C24: a clear and the turns in flight.                                   *)
(***************************************************************************)

\* C24: a turn that was in flight when a confirmed clear ran appends no
\* record when it resumes afterwards.
C24_ClearedTurnNotAppended ==
    [][\A t \in Slots :
          (/\ turns[t].cleared
           /\ turns[t].phase = "returned"
           /\ turns'[t].phase = "idle")
          => history' = history]_vars

(***************************************************************************)
(* C25: the fallback list and the model-list cache.                        *)
(***************************************************************************)

\* C25: the model-list cache is unset or holds the result of a successful
\* remote list call, never the fallback list (no entry of a remote list
\* has an id of the fallback list, so the two are told apart by value).
C25_FallbackNeverCached ==
    has_models => available_models # ModelsDefault

====
